---- MODULE Spec2Model ----
(***************************************************************************)
(* Order monitor: the in-memory order store (MemStorage), the status       *)
(* simulator (MockKafkaService: autonomous tick and manual trigger) and    *)
(* the push fan-out of the three registerRoutes variants (SSE broadcast to *)
(* all, SSE with per-client subscriptions, WebSocket).                     *)
(*                                                                         *)
(* Concurrency: one process, cooperative.  A handler runs from one await   *)
(* to the next without interruption; at an await any other handler may     *)
(* run.  Every action below is one such uninterrupted segment.             *)
(***************************************************************************)
EXTENDS Integers, Sequences, FiniteSets, TLC

\* ------------------------------------------------------------------ bounds
MaxCreates == 2
MaxStarts == 2
MaxConns == 2
MaxClock == 1
\* largest limit asked of getRecentOrders
MaxLimit == 3

\* ---------------------------------------------------------------- domains
Undefined == "undefined"

\* the handle setInterval returns
Timer == "Timeout"

OrderIds == {"ORD-2024-001", "ORD-2024-002"}

sampleOrders == {"ORD-2024-001", "ORD-2024-002", "ORD-2024-003"}

OrderStatus == {"pending", "confirmed", "processing", "shipped", "delivered", "cancelled"}

\* A status that is no key of the lookup tables but is a property every
\* JavaScript object inherits: table["constructor"] is the Object function.
Inherited == "constructor"
ObjectFunction == "[Function: Object]"

\* a progression table whose first entry skips a step
statusProgressionSkip(status) ==
    CASE status = "pending" -> "processing"
      [] status = "confirmed" -> "processing"
      [] status = "processing" -> "shipped"
      [] status = "shipped" -> "delivered"
      [] status = Inherited -> ObjectFunction
      [] OTHER -> Undefined

\* statusProgression[status], a property lookup on an object literal
statusProgression(status) ==
    CASE status = "pending" -> "confirmed"
      [] status = "confirmed" -> "processing"
      [] status = "processing" -> "shipped"
      [] status = "shipped" -> "delivered"
      [] status = Inherited -> ObjectFunction
      [] OTHER -> Undefined

\* what an if (...) takes as true
Truthy(v) == v # Undefined /\ v # ""

\* statuses a request body may carry: any string, or none at all
BodyStatuses == OrderStatus \cup {"bogus", Inherited, Undefined}

\* statuses of the create payloads (insertOrderSchema: any text)
CreateStatuses == {"pending", "shipped", "delivered", "bogus", Inherited}

durations == {"2m", "2h"}

Variants == {"sse_all", "sse_sub", "ws"}

ConnIds == 1..MaxConns

getStatusTitle(status) ==
    CASE status = "pending" -> "Order Placed"
      [] status = "confirmed" -> "Order Confirmed"
      [] status = "processing" -> "Processing"
      [] status = "shipped" -> "Shipped"
      [] status = "delivered" -> "Delivered"
      [] status = "cancelled" -> "Cancelled"
      [] status = Inherited -> ObjectFunction
      [] OTHER -> "Status Update"

getStatusDescription(status) ==
    CASE status = "pending" -> "Your order has been placed and is awaiting confirmation."
      [] status = "confirmed" -> "Your order has been confirmed and is being prepared for processing."
      [] status = "processing" -> "Items are being prepared and packaged for shipment."
      [] status = "shipped" -> "Your order has been shipped and is on its way."
      [] status = "delivered" -> "Your order has been delivered successfully."
      [] status = "cancelled" -> "Your order has been cancelled."
      [] status = Inherited -> ObjectFunction
      [] OTHER -> "Status has been updated."

\* ------------------------------------------------------------------ state
VARIABLES
    variant,        \* which registerRoutes is deployed
    orders,         \* MemStorage.orders: orderId -> Order (a Map: partial function)
    messages,       \* MemStorage.messages: orderId -> OrderMessage[]
    statusHistory,  \* MemStorage.statusHistory: orderId -> OrderStatusHistory[]
    currentId,      \* MemStorage.currentId
    now,            \* the wall clock read by new Date(): never goes back
    sseClients,     \* the client set: connection id -> [subscribedOrders]
    readyState,     \* per connection: NONE, OPEN, CLOSING, CLOSED
    written,        \* per connection: the writes attempted on it, in order
    tick,           \* the autonomous tick in progress (simulateOrderUpdate)
    trig,           \* the trigger-update request in progress
    wsreq,          \* the WebSocket subscribe_order message being handled
    emitted,        \* the messages handed to broadcastToClients, in order
    changes,        \* per order: status changes applied by ticks and triggers
    creates,        \* createOrder calls so far
    starts,         \* ticks, trigger requests and socket messages started so far
    orderKeys,      \* the keys of MemStorage.orders in the order a Map iterates them
    kafka,          \* the Kafka message being handled (KafkaService.handleMessage)
    messageInterval,\* MockKafkaService.messageInterval: the timer handle, or Null
    isConnected,    \* MockKafkaService.isConnected
    errors          \* the errors simulateOrderUpdate has caught and logged

vars == <<variant, orders, messages, statusHistory, currentId, now, sseClients,
          readyState, written, tick, trig, wsreq, emitted, changes, creates,
          starts, orderKeys, kafka, messageInterval, isConnected, errors>>

storeVars == <<orders, orderKeys, messages, statusHistory, currentId, now>>
fanoutVars == <<sseClients, readyState, written>>
serviceVars == <<messageInterval, isConnected, errors>>

\* ------------------------------------------------------------ MemStorage
\* new Date(): some instant not before the last one read
Clock == now..MaxClock

getOrder(orderId) ==
    IF orderId \in DOMAIN orders THEN <<orders[orderId]>> ELSE <<>>

\* a record whose orderId is taken from the wrong field of the payload
NewOrderWrongKey(insertOrder, id, t1, t2) ==
    [orderId |-> insertOrder.customerId,
     customerId |-> insertOrder.customerId,
     customerName |-> insertOrder.customerName,
     totalAmount |-> insertOrder.totalAmount,
     itemCount |-> insertOrder.itemCount,
     status |-> insertOrder.status,
     id |-> id, createdAt |-> t1, updatedAt |-> t2]

\* the record createOrder stores for a payload; t1, t2 are its two clock reads
NewOrder(insertOrder, id, t1, t2) ==
    [orderId |-> insertOrder.orderId,
     customerId |-> insertOrder.customerId,
     customerName |-> insertOrder.customerName,
     totalAmount |-> insertOrder.totalAmount,
     itemCount |-> insertOrder.itemCount,
     status |-> insertOrder.status,
     id |-> id, createdAt |-> t1, updatedAt |-> t2]

\* an update that resets updatedAt to the time of creation
MergeStatusStale(order, status, t) ==
    [order EXCEPT !.status = status, !.updatedAt = order.createdAt]

\* { ...order, ...updates, updatedAt: new Date() } for updates = { status }
MergeStatus(order, status, t) ==
    [order EXCEPT !.status = status, !.updatedAt = t]

\* the same for updates = { status, customerName, totalAmount, itemCount }:
\* a key of updates overrides the order's, also when its value is undefined
MergeFields(order, updates, t) ==
    [order EXCEPT !.status = updates.status, !.customerName = updates.customerName,
                  !.totalAmount = updates.totalAmount, !.itemCount = updates.itemCount,
                  !.updatedAt = t]

getOrderMessages(orderId) == messages[orderId]

getOrderStatusHistory(orderId) == statusHistory[orderId]

\* Array.from(this.orders.values()): the records in the Map's insertion order
OrderValues == [i \in 1..Len(orderKeys) |-> orders[orderKeys[i]]]

\* one insertion of the stable sort with comparator b.updatedAt - a.updatedAt:
\* x goes behind every element whose updatedAt is not smaller
InsertByUpdatedAt(sorted, x) ==
    LET k == Cardinality({i \in 1..Len(sorted) : sorted[i].updatedAt >= x.updatedAt})
    IN SubSeq(sorted, 1, k) \o <<x>> \o SubSeq(sorted, k + 1, Len(sorted))

RECURSIVE SortByUpdatedAt(_)
SortByUpdatedAt(vals) ==
    IF vals = <<>> THEN <<>>
    ELSE InsertByUpdatedAt(SortByUpdatedAt(SubSeq(vals, 1, Len(vals) - 1)),
                           vals[Len(vals)])

\* Array.prototype.slice(0, limit): a negative limit counts from the end
SliceFromStart(seq, limit) ==
    LET end == IF limit < 0
               THEN (IF Len(seq) + limit > 0 THEN Len(seq) + limit ELSE 0)
               ELSE (IF limit < Len(seq) THEN limit ELSE Len(seq))
    IN SubSeq(seq, 1, end)

getRecentOrders(limit) == SliceFromStart(SortByUpdatedAt(OrderValues), limit)

Null == "null"

NewHistory(orderId, status, operator, duration, id, t) ==
    [orderId |-> orderId, status |-> status, title |-> getStatusTitle(status),
     description |-> getStatusDescription(status), operator |-> operator,
     duration |-> IF Truthy(duration) THEN duration ELSE Null, id |-> id, timestamp |-> t]

\* a message that is numbered by its place in its own log
NewMessageOwnCounter(orderId, content, metadata, id, t) ==
    [orderId |-> orderId, messageType |-> "status_update", content |-> content,
     metadata |-> metadata, id |-> Len(messages[orderId]) + 1, timestamp |-> t]

NewMessage(orderId, content, metadata, id, t) ==
    [orderId |-> orderId, messageType |-> "status_update", content |-> content,
     metadata |-> metadata, id |-> id, timestamp |-> t]

\* the payload of a valid POST /api/orders body for orderId with status
Payload(orderId, status) ==
    IF orderId = "ORD-2024-001"
    THEN [orderId |-> orderId, customerId |-> "CUST-123", customerName |-> "John Doe",
          totalAmount |-> "89.99", itemCount |-> 3, status |-> status]
    ELSE [orderId |-> orderId, customerId |-> "CUST-456", customerName |-> "Jane Smith",
          totalAmount |-> "159.50", itemCount |-> 2, status |-> status]

\* ------------------------------------------------------------- the fan-out
\* one write on a connection: the event, its place n in the emission order
\* (0 for an event that is no broadcast) and whether the write succeeded
Write(type, orderId, n, ok) ==
    [type |-> type, orderId |-> orderId, n |-> n, ok |-> ok]

EventOrderId(message) ==
    IF message.type = "order_update" THEN message.data.orderId ELSE ""

\* a callback that applies the subscription filter to events of every type
TargetedEveryType(message) ==
    {c \in DOMAIN sseClients : message.data.orderId \in sseClients[c].subscribedOrders}

\* a callback that leaves the subscription filter out
TargetedNoFilter(message) == DOMAIN sseClients

\* the clients the targeted callback writes a message to
Targeted(message) ==
    IF message.type = "order_update"
    THEN {c \in DOMAIN sseClients : message.data.orderId \in sseClients[c].subscribedOrders}
    ELSE DOMAIN sseClients

\* a forEach that puts the event before the events already written to the
\* client instead of after them
ForEachWriteFirst(message, n, to, F) ==
    [clients |-> [c \in DOMAIN sseClients \ (to \cap F) |-> sseClients[c]],
     written |-> [c \in ConnIds |->
                    IF c \in to
                    THEN <<Write(message.type, EventOrderId(message), n, c \notin F)>>
                         \o written[c]
                    ELSE written[c]],
     threw |-> FALSE]

\* a forEach whose callback has no try/catch: the first write that throws
\* ends the iteration (clients are visited in the order they connected), no
\* client is removed and the exception reaches the caller
ForEachWriteNoCatch(message, n, to, F) ==
    LET failing == to \cap F
        stop == IF failing = {} THEN MaxConns + 1
                ELSE CHOOSE c \in failing : \A x \in failing : c <= x
    IN  [clients |-> sseClients,
         written |-> [c \in ConnIds |->
                        IF c \in to /\ c <= stop
                        THEN Append(written[c],
                                    Write(message.type, EventOrderId(message), n, c \notin F))
                        ELSE written[c]],
         threw |-> failing # {}]

\* sseClients.forEach(client => { try { write } catch { delete client } })
\* over the clients in `to`; F are the clients whose write throws.  A forEach
\* tolerates the removal of the entry it is visiting, and the catch keeps the
\* exception inside the callback.
ForEachWrite(message, n, to, F) ==
    [clients |-> [c \in DOMAIN sseClients \ (to \cap F) |-> sseClients[c]],
     written |-> [c \in ConnIds |->
                    IF c \in to
                    THEN Append(written[c], Write(message.type, EventOrderId(message), n, c \notin F))
                    ELSE written[c]],
     threw |-> FALSE]

\* the callback of the broadcast-all variant
SseBroadcastAll(message, n, F) ==
    ForEachWrite(message, n, DOMAIN sseClients, F)

\* the callback of the subscription variant
SseBroadcastTargeted(message, n, F) ==
    ForEachWrite(message, n, Targeted(message), F)

\* wss.clients.forEach: send to the sockets that are OPEN; send on an OPEN
\* socket does not throw
WsBroadcast(message, n) ==
    [clients |-> sseClients,
     written |-> [c \in ConnIds |->
                    IF c \in DOMAIN sseClients /\ readyState[c] = "OPEN"
                    THEN Append(written[c], Write(message.type, EventOrderId(message), n, TRUE))
                    ELSE written[c]],
     threw |-> FALSE]

\* the clients a broadcast of message writes to with a write that may throw
Audience(message) ==
    CASE variant = "sse_all" -> DOMAIN sseClients
      [] variant = "sse_sub" -> Targeted(message)
      [] OTHER -> {}

\* the service hands the message to the sink its initialize was given: the
\* callback of the deployed SSE variant, or the WebSocket server
broadcastToClients(message, n, F) ==
    CASE variant = "sse_all" -> SseBroadcastAll(message, n, F)
      [] variant = "sse_sub" -> SseBroadcastTargeted(message, n, F)
      [] OTHER -> WsBroadcast(message, n)

OrderUpdate(order) == [type |-> "order_update", data |-> order]

\* -------------------------------------------------- MockKafkaService tick
IdleTick ==
    [pc |-> "idle", orderId |-> "", currentOrder |-> <<>>, newStatus |-> "",
     updatedOrder |-> <<>>]

\* the interval timer fires while it is armed
\* simulateOrderUpdate up to its first await: pick an order, call getOrder
TickStart(randomOrderId) ==
    /\ messageInterval # Null
    /\ tick.pc = "idle"
    /\ starts < MaxStarts
    /\ starts' = starts + 1
    /\ tick' = [IdleTick EXCEPT !.pc = "update", !.orderId = randomOrderId,
                                !.currentOrder = getOrder(randomOrderId)]
    /\ UNCHANGED <<variant, serviceVars, kafka, storeVars, fanoutVars, trig, wsreq, emitted, changes, creates>>

\* the guard on the order read, then the call of updateOrder
TickUpdate(t) ==
    /\ tick.pc = "update"
    /\ t \in Clock
    /\ IF tick.currentOrder # <<>> /\ Truthy(statusProgression(tick.currentOrder[1].status))
       THEN LET newStatus == statusProgression(tick.currentOrder[1].status)
                orderId == tick.orderId
            IN  IF orderId \in DOMAIN orders
                THEN /\ orders' = [orders EXCEPT ![orderId] = MergeStatus(@, newStatus, t)]
                     /\ now' = t
                     /\ changes' = [changes EXCEPT ![orderId] = @ + 1]
                     /\ tick' = [tick EXCEPT !.pc = "history", !.newStatus = newStatus,
                                             !.updatedOrder = <<orders'[orderId]>>]
                ELSE /\ tick' = [tick EXCEPT !.pc = "history", !.newStatus = newStatus]
                     /\ UNCHANGED <<orders, now, changes>>
       ELSE /\ tick' = IdleTick
            /\ UNCHANGED <<orders, now, changes>>
    /\ UNCHANGED <<variant, serviceVars, orderKeys, kafka, messages, statusHistory, currentId, fanoutVars, trig, wsreq,
                   emitted, creates, starts>>

\* if (updatedOrder), then the call of addOrderStatusHistory
TickHistory(t, d) ==
    /\ tick.pc = "history"
    /\ t \in Clock
    /\ IF tick.updatedOrder # <<>>
       THEN /\ statusHistory' = [statusHistory EXCEPT ![tick.orderId] =
                   Append(@, NewHistory(tick.orderId, tick.newStatus, "System", d, currentId, t))]
            /\ currentId' = currentId + 1
            /\ now' = t
            /\ tick' = [tick EXCEPT !.pc = "message"]
       ELSE /\ tick' = IdleTick
            /\ UNCHANGED <<statusHistory, currentId, now>>
    /\ UNCHANGED <<variant, serviceVars, orderKeys, kafka, orders, messages, fanoutVars, trig, wsreq, emitted, changes,
                   creates, starts>>

\* a tick that goes on to its broadcast without the message
TickMessageSkipped(t) ==
    /\ tick.pc = "message"
    /\ t \in Clock
    /\ now' = t
    /\ tick' = [tick EXCEPT !.pc = "broadcast"]
    /\ UNCHANGED <<variant, serviceVars, orderKeys, kafka, orders, statusHistory, messages, currentId,
                   fanoutVars, trig, wsreq, emitted, changes, creates, starts>>

\* the call of addOrderMessage
TickMessage(t) ==
    /\ tick.pc = "message"
    /\ t \in Clock
    /\ messages' = [messages EXCEPT ![tick.orderId] =
           Append(@, NewMessage(tick.orderId, <<"Order status updated to", tick.newStatus>>,
                                [simulatedUpdate |-> TRUE], currentId, t))]
    /\ currentId' = currentId + 1
    /\ now' = t
    /\ tick' = [tick EXCEPT !.pc = "broadcast"]
    /\ UNCHANGED <<variant, serviceVars, orderKeys, kafka, orders, statusHistory, fanoutVars, trig, wsreq, emitted, changes,
                   creates, starts>>

\* broadcastToClients; an exception thrown in the try block is caught and logged
TickBroadcast ==
    /\ tick.pc = "broadcast"
    /\ LET message == OrderUpdate(tick.updatedOrder[1])
       IN  \E F \in SUBSET Audience(message) :
            LET result == broadcastToClients(message, Len(emitted) + 1, F)
            IN  /\ emitted' = Append(emitted, message)
                /\ sseClients' = result.clients
                /\ written' = result.written
    /\ tick' = IdleTick
    /\ UNCHANGED <<variant, serviceVars, kafka, storeVars, readyState, trig, wsreq, changes, creates, starts>>

\* a tick whose exception is not caught: the rejection leaves the timer
\* callback and ends the process, and its timer with it
TickThrowUnhandled ==
    /\ tick.pc # "idle"
    /\ tick' = IdleTick
    /\ messageInterval' = Null
    /\ isConnected' = FALSE
    /\ errors' = errors + 1
    /\ UNCHANGED <<variant, kafka, storeVars, fanoutVars, trig, wsreq, emitted, changes, creates,
                   starts>>

\* an awaited store call of the tick rejects, or its broadcast throws: the
\* catch of simulateOrderUpdate logs the error and the tick returns
TickThrow ==
    /\ tick.pc # "idle"
    /\ tick' = IdleTick
    /\ errors' = errors + 1
    /\ UNCHANGED <<variant, messageInterval, isConnected, kafka, storeVars, fanoutVars, trig, wsreq,
                   emitted, changes, creates, starts>>

\* a disconnect that fails when the service holds no timer
DisconnectUnguarded ==
    /\ messageInterval # Null
    /\ messageInterval' = Null
    /\ isConnected' = FALSE
    /\ UNCHANGED <<variant, errors, kafka, storeVars, fanoutVars, tick, trig, wsreq, emitted,
                   changes, creates, starts>>

\* MockKafkaService.disconnect: cancel the timer if there is one, then
\* isConnected = false.  A tick in progress runs on.
Disconnect ==
    /\ messageInterval' = Null
    /\ isConnected' = FALSE
    /\ UNCHANGED <<variant, errors, kafka, storeVars, fanoutVars, tick, trig, wsreq, emitted,
                   changes, creates, starts>>

\* ------------------------------------- POST /api/orders/:orderId/trigger-update
\* res: the status code of the route's last answer (0: none yet)
IdleTrig ==
    [pc |-> "idle", orderId |-> "", newStatus |-> "", order |-> <<>>, res |-> 0]

Answer(code) == [IdleTrig EXCEPT !.res = code]

\* a trigger that validates the target against the forward chain and answers
\* 400 otherwise
TriggerStartChainOnly(orderId, status, t) ==
    /\ trig.pc = "idle"
    /\ t \in Clock
    /\ starts < MaxStarts
    /\ starts' = starts + 1
    /\ IF orderId \in DOMAIN orders /\ statusProgression(orders[orderId].status) = status
       THEN /\ orders' = [orders EXCEPT ![orderId] = MergeStatus(@, status, t)]
            /\ now' = t
            /\ changes' = [changes EXCEPT ![orderId] = @ + 1]
            /\ trig' = [pc |-> "history", orderId |-> orderId, newStatus |-> status,
                        order |-> <<orders'[orderId]>>, res |-> 0]
       ELSE /\ trig' = Answer(400)
            /\ UNCHANGED <<orders, now, changes>>
    /\ UNCHANGED <<variant, serviceVars, orderKeys, kafka, messages, statusHistory, currentId, fanoutVars, tick, wsreq,
                   emitted, creates>>

\* the route up to the first await of triggerOrderUpdate: the WebSocket
\* variant answers 400 to a body without status; then the call of updateOrder
TriggerStart(orderId, status, t) ==
    /\ trig.pc = "idle"
    /\ t \in Clock
    /\ starts < MaxStarts
    /\ starts' = starts + 1
    /\ IF variant = "ws" /\ ~Truthy(status)
       THEN /\ trig' = Answer(400)
            /\ UNCHANGED <<orders, now, changes>>
       ELSE IF orderId \in DOMAIN orders
            THEN /\ orders' = [orders EXCEPT ![orderId] = MergeStatus(@, status, t)]
                 /\ now' = t
                 /\ changes' = [changes EXCEPT ![orderId] = @ + 1]
                 /\ trig' = [pc |-> "history", orderId |-> orderId, newStatus |-> status,
                             order |-> <<orders'[orderId]>>, res |-> 0]
            ELSE /\ trig' = [pc |-> "history", orderId |-> orderId, newStatus |-> status,
                             order |-> <<>>, res |-> 0]
                 /\ UNCHANGED <<orders, now, changes>>
    /\ UNCHANGED <<variant, serviceVars, orderKeys, kafka, messages, statusHistory, currentId, fanoutVars, tick, wsreq,
                   emitted, creates>>

\* a store that keeps only the newest entry of a status-history log
TriggerHistoryOverwrite(t, d) ==
    /\ trig.pc = "history"
    /\ t \in Clock
    /\ IF trig.order # <<>>
       THEN /\ statusHistory' = [statusHistory EXCEPT ![trig.orderId] =
                   <<NewHistory(trig.orderId, trig.newStatus, "Manual", d, currentId, t)>>]
            /\ currentId' = currentId + 1
            /\ now' = t
            /\ trig' = [trig EXCEPT !.pc = "message"]
       ELSE /\ trig' = Answer(200)
            /\ UNCHANGED <<statusHistory, currentId, now>>
    /\ UNCHANGED <<variant, serviceVars, orderKeys, kafka, orders, messages, fanoutVars, tick, wsreq, emitted, changes,
                   creates, starts>>

\* if (order), then the call of addOrderStatusHistory; else the route answers
TriggerHistory(t, d) ==
    /\ trig.pc = "history"
    /\ t \in Clock
    /\ IF trig.order # <<>>
       THEN /\ statusHistory' = [statusHistory EXCEPT ![trig.orderId] =
                   Append(@, NewHistory(trig.orderId, trig.newStatus, "Manual", d, currentId, t))]
            /\ currentId' = currentId + 1
            /\ now' = t
            /\ trig' = [trig EXCEPT !.pc = "message"]
       ELSE /\ trig' = Answer(200)
            /\ UNCHANGED <<statusHistory, currentId, now>>
    /\ UNCHANGED <<variant, serviceVars, orderKeys, kafka, orders, messages, fanoutVars, tick, wsreq, emitted, changes,
                   creates, starts>>

\* the call of addOrderMessage
TriggerMessage(t) ==
    /\ trig.pc = "message"
    /\ t \in Clock
    /\ messages' = [messages EXCEPT ![trig.orderId] =
           Append(@, NewMessage(trig.orderId,
                                <<"Order status manually updated to", trig.newStatus>>,
                                [manualUpdate |-> TRUE], currentId, t))]
    /\ currentId' = currentId + 1
    /\ now' = t
    /\ trig' = [trig EXCEPT !.pc = "broadcast"]
    /\ UNCHANGED <<variant, serviceVars, orderKeys, kafka, orders, statusHistory, fanoutVars, tick, wsreq, emitted, changes,
                   creates, starts>>

\* broadcastToClients, then the route's answer: 200, or 500 from its catch
TriggerBroadcast ==
    /\ trig.pc = "broadcast"
    /\ LET message == OrderUpdate(trig.order[1])
       IN  \E F \in SUBSET Audience(message) :
            LET result == broadcastToClients(message, Len(emitted) + 1, F)
            IN  /\ emitted' = Append(emitted, message)
                /\ sseClients' = result.clients
                /\ written' = result.written
                /\ trig' = Answer(IF result.threw THEN 500 ELSE 200)
    /\ UNCHANGED <<variant, serviceVars, kafka, storeVars, readyState, tick, wsreq, changes, creates, starts>>

\* ------------------------------------------------- KafkaService messages
\* one message at a time: eachMessage awaits handleMessage
IdleKafka == [pc |-> "idle", data |-> <<>>, order |-> <<>>]

\* metadata is data.metadata || {}: the messages modelled carry none, and
\* <<>> stands for the empty object.
\* the parsed values of the messages on the order-updates topic: a field a
\* message leaves out reads as undefined (the messages modelled all carry
\* itemCount)
OrderUpdateData ==
    [orderId : OrderIds, status : {"shipped", Undefined},
     customerName : {"John Doe", Undefined}, totalAmount : {"89.99"}, itemCount : {3}]

\* the parsed values of the messages on the order-status topic
StatusUpdateData ==
    [orderId : OrderIds, messageType : {"info", Undefined}, content : {"Out for delivery"}]

\* handleOrderUpdate up to its first await: the call of updateOrder
KafkaOrderStart(data, t) ==
    /\ kafka.pc = "idle"
    /\ t \in Clock
    /\ starts < MaxStarts
    /\ starts' = starts + 1
    /\ IF data.orderId \in DOMAIN orders
       THEN /\ orders' = [orders EXCEPT ![data.orderId] = MergeFields(@, data, t)]
            /\ now' = t
            /\ changes' = [changes EXCEPT ![data.orderId] = @ + 1]
            /\ kafka' = [pc |-> "history", data |-> <<data>>,
                         order |-> <<orders'[data.orderId]>>]
       ELSE /\ kafka' = [pc |-> "history", data |-> <<data>>, order |-> <<>>]
            /\ UNCHANGED <<orders, now, changes>>
    /\ UNCHANGED <<variant, serviceVars, orderKeys, messages, statusHistory, currentId, fanoutVars, tick,
                   trig, wsreq, emitted, creates>>

\* if (order), then the call of addOrderStatusHistory: operator is
\* data.operator || 'System', duration is data.duration
KafkaOrderHistory(t) ==
    /\ kafka.pc = "history"
    /\ t \in Clock
    /\ IF kafka.order # <<>>
       THEN /\ statusHistory' = [statusHistory EXCEPT ![kafka.data[1].orderId] =
                   Append(@, NewHistory(kafka.data[1].orderId, kafka.data[1].status, "System",
                                        Undefined, currentId, t))]
            /\ currentId' = currentId + 1
            /\ now' = t
            /\ kafka' = [kafka EXCEPT !.pc = "message"]
       ELSE /\ kafka' = IdleKafka
            /\ UNCHANGED <<statusHistory, currentId, now>>
    /\ UNCHANGED <<variant, serviceVars, orders, orderKeys, messages, fanoutVars, tick, trig, wsreq,
                   emitted, changes, creates, starts>>

\* the call of addOrderMessage
KafkaOrderMessage(t) ==
    /\ kafka.pc = "message"
    /\ t \in Clock
    /\ messages' = [messages EXCEPT ![kafka.data[1].orderId] =
           Append(@, NewMessage(kafka.data[1].orderId,
                                <<"Order status updated to", kafka.data[1].status>>,
                                <<>>, currentId, t))]
    /\ currentId' = currentId + 1
    /\ now' = t
    /\ kafka' = [kafka EXCEPT !.pc = "broadcast"]
    /\ UNCHANGED <<variant, serviceVars, orders, orderKeys, statusHistory, fanoutVars, tick, trig, wsreq,
                   emitted, changes, creates, starts>>

\* broadcastToClients({ type: 'order_update', data: order })
KafkaOrderBroadcast ==
    /\ kafka.pc = "broadcast"
    /\ LET message == OrderUpdate(kafka.order[1])
       IN  \E F \in SUBSET Audience(message) :
            LET result == broadcastToClients(message, Len(emitted) + 1, F)
            IN  /\ emitted' = Append(emitted, message)
                /\ sseClients' = result.clients
                /\ written' = result.written
    /\ kafka' = IdleKafka
    /\ UNCHANGED <<variant, serviceVars, storeVars, readyState, tick, trig, wsreq, changes, creates, starts>>

MessageUpdate(data) ==
    [type |-> "message_update",
     data |-> [orderId |-> data.orderId, messageType |-> data.messageType,
               content |-> data.content]]

\* handleStatusUpdate up to its await: the call of addOrderMessage, with
\* messageType data.messageType || 'info'
KafkaStatusStart(data, t) ==
    /\ kafka.pc = "idle"
    /\ t \in Clock
    /\ starts < MaxStarts
    /\ starts' = starts + 1
    /\ messages' = [messages EXCEPT ![data.orderId] =
           Append(@, [NewMessage(data.orderId, data.content, <<>>, currentId, t)
                        EXCEPT !.messageType = IF Truthy(data.messageType)
                                               THEN data.messageType ELSE "info"])]
    /\ currentId' = currentId + 1
    /\ now' = t
    /\ kafka' = [pc |-> "status_broadcast", data |-> <<data>>, order |-> <<>>]
    /\ UNCHANGED <<variant, serviceVars, orders, orderKeys, statusHistory, fanoutVars, tick, trig, wsreq,
                   emitted, changes, creates>>

\* broadcastToClients({ type: 'message_update', data: ... })
KafkaStatusBroadcast ==
    /\ kafka.pc = "status_broadcast"
    /\ LET message == MessageUpdate(kafka.data[1])
       IN  \E F \in SUBSET Audience(message) :
            LET result == broadcastToClients(message, Len(emitted) + 1, F)
            IN  /\ emitted' = Append(emitted, message)
                /\ sseClients' = result.clients
                /\ written' = result.written
    /\ kafka' = IdleKafka
    /\ UNCHANGED <<variant, serviceVars, storeVars, readyState, tick, trig, wsreq, changes, creates, starts>>

\* ------------------------------------------------------- the store routes
\* a route that answers 200 with an empty body for an order it does not find
GetOrderRouteNo404(orderId) ==
    LET order == getOrder(orderId)
    IN  IF order = <<>>
        THEN [status |-> 200, body |-> Null]
        ELSE [status |-> 200, body |-> order[1]]

\* GET /api/orders/:orderId: the answer is decided by the Map lookup that the
\* call of getOrder makes, that is by the state the request finds
GetOrderRoute(orderId) ==
    LET order == getOrder(orderId)
    IN  IF order = <<>>
        THEN [status |-> 404, body |-> [error |-> "Order not found"]]
        ELSE [status |-> 200, body |-> order[1]]

\* a create that refuses an orderId that is already stored
CreateOrderRejectsDuplicate(orderId, status, t1, t2) ==
    /\ orderId \notin DOMAIN orders
    /\ creates < MaxCreates
    /\ creates' = creates + 1
    /\ t1 \in Clock
    /\ t2 \in t1..MaxClock
    /\ orders' = [o \in DOMAIN orders \cup {orderId} |->
                    IF o = orderId
                    THEN NewOrder(Payload(orderId, status), currentId, t1, t2)
                    ELSE orders[o]]
    /\ orderKeys' = Append(orderKeys, orderId)
    /\ now' = t2
    /\ currentId' = currentId + 1
    /\ UNCHANGED <<variant, serviceVars, kafka, messages, statusHistory, fanoutVars, tick, trig, wsreq,
                   emitted, changes, starts>>

\* POST /api/orders with a valid body: storage.createOrder(validatedData)
CreateOrder(orderId, status, t1, t2) ==
    /\ creates < MaxCreates
    /\ creates' = creates + 1
    /\ t1 \in Clock
    /\ t2 \in t1..MaxClock
    /\ orders' = [o \in DOMAIN orders \cup {orderId} |->
                    IF o = orderId
                    THEN NewOrder(Payload(orderId, status), currentId, t1, t2)
                    ELSE orders[o]]
    /\ orderKeys' = IF orderId \in DOMAIN orders THEN orderKeys ELSE Append(orderKeys, orderId)
    /\ now' = t2
    /\ currentId' = currentId + 1
    /\ UNCHANGED <<variant, serviceVars, kafka, messages, statusHistory, fanoutVars, tick, trig, wsreq, emitted,
                   changes, starts>>

\* a clear that drops the message log of every order
ClearMessagesAll(orderId) ==
    /\ messages' = [o \in DOMAIN messages |-> <<>>]
    /\ UNCHANGED <<variant, serviceVars, orderKeys, kafka, orders, statusHistory, currentId, now, fanoutVars, tick, trig,
                   wsreq, emitted, changes, creates, starts>>

\* DELETE /api/orders/:orderId/messages: storage.clearOrderMessages(orderId)
ClearMessages(orderId) ==
    /\ messages' = [messages EXCEPT ![orderId] = <<>>]
    /\ UNCHANGED <<variant, serviceVars, orderKeys, kafka, orders, statusHistory, currentId, now, fanoutVars, tick, trig,
                   wsreq, emitted, changes, creates, starts>>

\* ------------------------------------------------- live-update connections
\* client ids are fresh: Date.now() and a random suffix
NextConn == Cardinality({c \in ConnIds : readyState[c] # "NONE"}) + 1

\* a connection handler that adds the client and leaves the initial write out
SseConnectSilent(orderId, fail) ==
    /\ variant \in {"sse_all", "sse_sub"}
    /\ NextConn \in ConnIds
    /\ LET c == NextConn
           client == [subscribedOrders |->
                        IF variant = "sse_sub" /\ Truthy(orderId) THEN {orderId} ELSE {}]
       IN  /\ readyState' = [readyState EXCEPT ![c] = "OPEN"]
           /\ sseClients' = [x \in DOMAIN sseClients \cup {c} |->
                                IF x = c THEN client ELSE sseClients[x]]
    /\ UNCHANGED <<variant, serviceVars, kafka, storeVars, written, tick, trig, wsreq, emitted, changes, creates,
                   starts>>

\* GET /api/events: add the client, write connection_status (on a throw: remove
\* the client and return), register the close and error handlers.  orderId
\* is the query parameter, Undefined when absent.
SseConnect(orderId, fail) ==
    /\ variant \in {"sse_all", "sse_sub"}
    /\ NextConn \in ConnIds
    /\ LET c == NextConn
           client == [subscribedOrders |->
                        IF variant = "sse_sub" /\ Truthy(orderId) THEN {orderId} ELSE {}]
           subscribedTo == IF variant = "sse_sub"
                           THEN (IF Truthy(orderId) THEN orderId ELSE "all_orders")
                           ELSE ""
       IN  /\ written' = [written EXCEPT ![c] =
                            Append(@, Write("connection_status", subscribedTo, 0, ~fail))]
           /\ IF fail
              THEN /\ readyState' = [readyState EXCEPT ![c] = "CLOSED"]
                   /\ UNCHANGED sseClients
              ELSE /\ readyState' = [readyState EXCEPT ![c] = "OPEN"]
                   /\ sseClients' = [x \in DOMAIN sseClients \cup {c} |->
                                        IF x = c THEN client ELSE sseClients[x]]
    /\ UNCHANGED <<variant, serviceVars, kafka, storeVars, tick, trig, wsreq, emitted, changes, creates, starts>>

\* handlers that leave the client in the set
SseDisconnectLeak(c, event) ==
    /\ variant \in {"sse_all", "sse_sub"}
    /\ \/ event = "close" /\ readyState[c] \in {"OPEN", "CLOSING"}
       \/ event \in {"req_error", "res_error"} /\ readyState[c] = "OPEN"
    /\ readyState' = [readyState EXCEPT ![c] = IF event = "close" THEN "CLOSED" ELSE "CLOSING"]
    /\ UNCHANGED <<variant, serviceVars, kafka, storeVars, sseClients, written, tick, trig, wsreq, emitted,
                   changes, creates, starts>>

\* req 'close', req 'error', res 'error': each handler deletes the client.
\* An error is followed by the close of the connection.
SseDisconnect(c, event) ==
    /\ variant \in {"sse_all", "sse_sub"}
    /\ \/ event = "close" /\ readyState[c] \in {"OPEN", "CLOSING"}
       \/ event \in {"req_error", "res_error"} /\ readyState[c] = "OPEN"
    /\ readyState' = [readyState EXCEPT ![c] = IF event = "close" THEN "CLOSED" ELSE "CLOSING"]
    /\ sseClients' = [x \in DOMAIN sseClients \ {c} |-> sseClients[x]]
    /\ UNCHANGED <<variant, serviceVars, kafka, storeVars, written, tick, trig, wsreq, emitted, changes, creates,
                   starts>>

\* a subscribe that makes an entry for a client id it does not know
SubscribeRouteUpsert(clientId, orderId) ==
    IF clientId \in DOMAIN sseClients
    THEN [status |-> 200,
          clients |-> [sseClients EXCEPT ![clientId].subscribedOrders = @ \cup {orderId}]]
    ELSE [status |-> 200,
          clients |-> [x \in DOMAIN sseClients \cup {clientId} |->
                         IF x = clientId THEN [subscribedOrders |-> {orderId}]
                         ELSE sseClients[x]]]

\* the answer of POST /api/events/subscribe to a body with clientId and
\* orderId, and the client set it leaves
SubscribeRoute(clientId, orderId) ==
    IF clientId \in DOMAIN sseClients
    THEN [status |-> 200,
          clients |-> [sseClients EXCEPT ![clientId].subscribedOrders = @ \cup {orderId}]]
    ELSE [status |-> 404, clients |-> sseClients]

\* the same of POST /api/events/unsubscribe
UnsubscribeRoute(clientId, orderId) ==
    IF clientId \in DOMAIN sseClients
    THEN [status |-> 200,
          clients |-> [sseClients EXCEPT ![clientId].subscribedOrders = @ \ {orderId}]]
    ELSE [status |-> 404, clients |-> sseClients]

\* POST /api/events/subscribe with clientId and orderId in the body
Subscribe(clientId, orderId) ==
    /\ variant = "sse_sub"
    /\ sseClients' = SubscribeRoute(clientId, orderId).clients
    /\ UNCHANGED <<variant, serviceVars, kafka, storeVars, readyState, written, tick, trig, wsreq, emitted,
                   changes, creates, starts>>

\* POST /api/events/unsubscribe
Unsubscribe(clientId, orderId) ==
    /\ variant = "sse_sub"
    /\ sseClients' = UnsubscribeRoute(clientId, orderId).clients
    /\ UNCHANGED <<variant, serviceVars, kafka, storeVars, readyState, written, tick, trig, wsreq, emitted,
                   changes, creates, starts>>

\* wss 'connection': the socket is in wss.clients and OPEN; the handler
\* registers its listeners and sends connection_status
WsConnect ==
    /\ variant = "ws"
    /\ NextConn \in ConnIds
    /\ LET c == NextConn
       IN  /\ sseClients' = [x \in DOMAIN sseClients \cup {c} |->
                                IF x = c THEN [subscribedOrders |-> {}] ELSE sseClients[x]]
           /\ readyState' = [readyState EXCEPT ![c] = "OPEN"]
           /\ written' = [written EXCEPT ![c] = Append(@, Write("connection_status", "", 0, TRUE))]
    /\ UNCHANGED <<variant, serviceVars, kafka, storeVars, tick, trig, wsreq, emitted, changes, creates, starts>>

IdleWsReq == [pc |-> "idle", conn |-> 0, orderId |-> "", order |-> <<>>]

\* ws 'message' with type subscribe_order, up to the await: the call of getOrder
WsMessageStart(c, orderId) ==
    /\ variant = "ws"
    /\ readyState[c] = "OPEN"
    /\ wsreq.pc = "idle"
    /\ starts < MaxStarts
    /\ starts' = starts + 1
    /\ wsreq' = [pc |-> "reply", conn |-> c, orderId |-> orderId, order |-> getOrder(orderId)]
    /\ UNCHANGED <<variant, serviceVars, kafka, storeVars, fanoutVars, tick, trig, emitted, changes, creates>>

\* if (order) ws.send(order_data); send on a socket that is not OPEN fails
\* without throwing
WsReply ==
    /\ wsreq.pc = "reply"
    /\ IF wsreq.order # <<>>
       THEN written' = [written EXCEPT ![wsreq.conn] =
                Append(@, Write("order_data", wsreq.orderId, 0, readyState[wsreq.conn] = "OPEN"))]
       ELSE UNCHANGED written
    /\ wsreq' = IdleWsReq
    /\ UNCHANGED <<variant, serviceVars, kafka, storeVars, sseClients, readyState, tick, trig, emitted, changes,
                   creates, starts>>

\* the closing handshake starts: the socket is CLOSING, still in wss.clients
WsClosing(c) ==
    /\ variant = "ws"
    /\ readyState[c] = "OPEN"
    /\ readyState' = [readyState EXCEPT ![c] = "CLOSING"]
    /\ UNCHANGED <<variant, serviceVars, kafka, storeVars, sseClients, written, tick, trig, wsreq, emitted,
                   changes, creates, starts>>

\* ws 'close': the socket is CLOSED and the server drops it from wss.clients
WsClose(c) ==
    /\ variant = "ws"
    /\ readyState[c] \in {"OPEN", "CLOSING"}
    /\ readyState' = [readyState EXCEPT ![c] = "CLOSED"]
    /\ sseClients' = [x \in DOMAIN sseClients \ {c} |-> sseClients[x]]
    /\ UNCHANGED <<variant, serviceVars, kafka, storeVars, written, tick, trig, wsreq, emitted, changes, creates,
                   starts>>

\* ------------------------------------------------------------ specification
\* the services once registerRoutes has awaited initialize: the simulator's
\* timer is armed; no connection and no request yet
InitServices ==
    /\ variant \in Variants
    /\ messages = [o \in OrderIds |-> <<>>]
    /\ statusHistory = [o \in OrderIds |-> <<>>]
    /\ now = 0
    /\ sseClients = [c \in {} |-> 0]
    /\ readyState = [c \in ConnIds |-> "NONE"]
    /\ written = [c \in ConnIds |-> <<>>]
    /\ tick = IdleTick
    /\ trig = IdleTrig
    /\ wsreq = IdleWsReq
    /\ emitted = <<>>
    /\ changes = [o \in OrderIds |-> 0]
    /\ creates = 0
    /\ starts = 0
    /\ kafka = IdleKafka
    /\ messageInterval = Timer
    /\ isConnected = TRUE
    /\ errors = 0

\* new MemStorage(): an empty store
Init ==
    /\ InitServices
    /\ orders = [o \in {} |-> 0]
    /\ orderKeys = <<>>
    /\ currentId = 1

\* the store after the server's startup, which creates the default orders
\* when the store is empty (the two of them that are modelled)
InitServer ==
    /\ InitServices
    /\ orders = [o \in OrderIds |->
                    NewOrder(Payload(o, IF o = "ORD-2024-001" THEN "pending" ELSE "confirmed"),
                             IF o = "ORD-2024-001" THEN 1 ELSE 2, 0, 0)]
    /\ orderKeys = <<"ORD-2024-001", "ORD-2024-002">>
    /\ currentId = 3

\* every operation, with its inputs drawn from all the values modelled
Next ==
    \/ \E o \in OrderIds, s \in CreateStatuses, t1, t2 \in 0..MaxClock : CreateOrder(o, s, t1, t2)
    \/ \E o \in OrderIds : ClearMessages(o)
    \/ \E o \in sampleOrders : TickStart(o)
    \/ \E t \in 0..MaxClock : TickUpdate(t)
    \/ \E t \in 0..MaxClock, d \in durations : TickHistory(t, d)
    \/ \E t \in 0..MaxClock : TickMessage(t)
    \/ TickBroadcast
    \/ TickThrow
    \/ Disconnect
    \/ \E o \in OrderIds, s \in BodyStatuses, t \in 0..MaxClock : TriggerStart(o, s, t)
    \/ \E t \in 0..MaxClock, d \in durations : TriggerHistory(t, d)
    \/ \E t \in 0..MaxClock : TriggerMessage(t)
    \/ TriggerBroadcast
    \/ \E o \in OrderIds \cup {Undefined}, fail \in BOOLEAN : SseConnect(o, fail)
    \/ \E c \in ConnIds, e \in {"close", "req_error", "res_error"} : SseDisconnect(c, e)
    \/ \E c \in ConnIds, o \in OrderIds : Subscribe(c, o)
    \/ \E c \in ConnIds, o \in OrderIds : Unsubscribe(c, o)
    \/ WsConnect
    \/ \E c \in ConnIds, o \in OrderIds : WsMessageStart(c, o)
    \/ WsReply
    \/ \E c \in ConnIds : WsClosing(c)
    \/ \E c \in ConnIds : WsClose(c)
    \/ \E d \in OrderUpdateData, t \in 0..MaxClock : KafkaOrderStart(d, t)
    \/ \E t \in 0..MaxClock : KafkaOrderHistory(t)
    \/ \E t \in 0..MaxClock : KafkaOrderMessage(t)
    \/ KafkaOrderBroadcast
    \/ \E d \in StatusUpdateData, t \in 0..MaxClock : KafkaStatusStart(d, t)
    \/ KafkaStatusBroadcast

Spec == Init /\ [][Next]_vars

\* a store that POST /api/orders requests have filled, one request an order:
\* any of the orders, each with any status a payload may carry
InitOrders ==
    /\ InitServices
    /\ \E S \in SUBSET OrderIds :
        \E st \in [S -> CreateStatuses] :
            /\ orders = [o \in S |->
                    NewOrder(Payload(o, st[o]),
                             IF o = "ORD-2024-001" \/ S = {o} THEN 1 ELSE 2, 0, 0)]
            /\ orderKeys = SelectSeq(<<"ORD-2024-001", "ORD-2024-002">>, LAMBDA o : o \in S)
            /\ currentId = Cardinality(S) + 1

\* The simulator on such a store, with no live-update client connected: every
\* status and every interleaving of a tick and a trigger request.  The clock
\* stands still.
NextSim ==
    \/ \E o \in sampleOrders : TickStart(o)
    \/ TickUpdate(now)
    \/ TickHistory(now, "2m")
    \/ TickMessage(now)
    \/ TickBroadcast
    \/ \E o \in OrderIds, s \in BodyStatuses : TriggerStart(o, s, now)
    \/ TriggerHistory(now, "2m")
    \/ TriggerMessage(now)
    \/ TriggerBroadcast

SpecSim == InitOrders /\ [][NextSim]_vars

\* The fan-out: connections, subscriptions and broadcasts in the three route
\* variants, on the started server.  The clock stands still and a tick and a
\* trigger request run one after the other: neither time nor the interleaving
\* of store calls decides a delivery.
NextFanout ==
    \/ \E o \in sampleOrders : trig.pc = "idle" /\ TickStart(o)
    \/ TickUpdate(now)
    \/ TickHistory(now, "2m")
    \/ TickMessage(now)
    \/ TickBroadcast
    \/ \E o \in OrderIds : tick.pc = "idle" /\ TriggerStart(o, "delivered", now)
    \/ TriggerHistory(now, "2m")
    \/ TriggerMessage(now)
    \/ TriggerBroadcast
    \/ \E o \in OrderIds \cup {Undefined}, fail \in BOOLEAN : SseConnect(o, fail)
    \/ \E c \in ConnIds, e \in {"close", "req_error", "res_error"} : SseDisconnect(c, e)
    \/ \E c \in ConnIds, o \in OrderIds : Subscribe(c, o)
    \/ \E c \in ConnIds, o \in OrderIds : Unsubscribe(c, o)
    \/ WsConnect
    \/ \E c \in ConnIds, o \in OrderIds : WsMessageStart(c, o)
    \/ WsReply
    \/ \E c \in ConnIds : WsClosing(c)
    \/ \E c \in ConnIds : WsClose(c)

SpecFanout == InitServer /\ [][NextFanout]_vars

\* The events that are no order_update: connections, subscriptions and the
\* Kafka messages of the order-status topic, on the started server.
NextEvents ==
    \/ \E d \in StatusUpdateData : KafkaStatusStart(d, now)
    \/ KafkaStatusBroadcast
    \/ \E o \in OrderIds \cup {Undefined}, fail \in BOOLEAN : SseConnect(o, fail)
    \/ \E c \in ConnIds, e \in {"close", "req_error", "res_error"} : SseDisconnect(c, e)
    \/ \E c \in ConnIds, o \in OrderIds : Subscribe(c, o)
    \/ \E c \in ConnIds, o \in OrderIds : Unsubscribe(c, o)
    \/ WsConnect
    \/ \E c \in ConnIds : WsClosing(c)
    \/ \E c \in ConnIds : WsClose(c)

SpecEvents == InitServer /\ [][NextEvents]_vars

\* a new MemStorage behind the routes of the subscription variant
InitStore ==
    /\ Init
    /\ variant = "sse_sub"

\* no tick, trigger-update request or Kafka message is being handled
Quiet ==
    tick.pc = "idle" /\ trig.pc = "idle" /\ kafka.pc = "idle"

\* The store under every operation that writes it, from the empty store,
\* with no live-update client connected: the create and clear routes, the
\* tick, the trigger-update request and the two Kafka handlers, under a
\* clock that moves.  The tick, the request and the Kafka handlers run one
\* after the other; a create or a clear runs at any of their awaits.
NextStore ==
    \/ \E o \in OrderIds, s \in {"pending", "bogus"}, t1, t2 \in 0..MaxClock :
            CreateOrder(o, s, t1, t2)
    \/ \E o \in OrderIds : ClearMessages(o)
    \/ \E o \in sampleOrders : Quiet /\ TickStart(o)
    \/ \E t \in 0..MaxClock : TickUpdate(t)
    \/ \E t \in 0..MaxClock : TickHistory(t, "2m")
    \/ \E t \in 0..MaxClock : TickMessage(t)
    \/ TickBroadcast
    \/ \E o \in OrderIds, s \in {"delivered", Undefined}, t \in 0..MaxClock :
            Quiet /\ TriggerStart(o, s, t)
    \/ \E t \in 0..MaxClock : TriggerHistory(t, "2m")
    \/ \E t \in 0..MaxClock : TriggerMessage(t)
    \/ TriggerBroadcast
    \/ \E d \in OrderUpdateData, t \in 0..MaxClock : Quiet /\ KafkaOrderStart(d, t)
    \/ \E t \in 0..MaxClock : KafkaOrderHistory(t)
    \/ \E t \in 0..MaxClock : KafkaOrderMessage(t)
    \/ KafkaOrderBroadcast
    \/ \E d \in StatusUpdateData, t \in 0..MaxClock : Quiet /\ KafkaStatusStart(d, t)
    \/ KafkaStatusBroadcast

SpecStore == InitStore /\ [][NextStore]_vars

\* The simulator's lifecycle on the started server: the timer's ticks, each
\* of which may fail at any of its awaits, and disconnect at any moment.  The
\* clock stands still.
NextService ==
    \/ \E o \in sampleOrders : TickStart(o)
    \/ TickUpdate(now)
    \/ \E d \in durations : TickHistory(now, d)
    \/ TickMessage(now)
    \/ TickBroadcast
    \/ TickThrow
    \/ Disconnect

SpecService == InitServer /\ [][NextService]_vars

\* ------------------------------------------------------------ properties
Last(s) == s[Len(s)]

\* the step hands one more message to broadcastToClients
Broadcasts == Len(emitted') = Len(emitted) + 1

\* the step attempts one more write on connection c
Writes(c) == Len(written'[c]) = Len(written[c]) + 1

\* C1: in the subscription variant, an order_update for order X is written
\* only to connected clients whose subscription set contains X at the moment
\* of the broadcast; a client subscribed only to one order never receives
\* the order_update of another.
C1_OrderUpdateOnlyToSubscribers ==
    [][variant = "sse_sub" =>
        \A c \in ConnIds :
            (written'[c] # written[c] /\ Last(written'[c]).type = "order_update")
            => /\ c \in DOMAIN sseClients
               /\ Last(written'[c]).orderId \in sseClients[c].subscribedOrders]_vars

\* the first client, connected for ORD-2024-002, has been written that
\* order's update only, while the second has been written the earlier update
\* of ORD-2024-001
C1_Witness ==
    /\ variant = "sse_sub"
    /\ {1, 2} \subseteq DOMAIN sseClients
    /\ sseClients[1].subscribedOrders = {"ORD-2024-002"}
    /\ written[1] = <<Write("connection_status", "ORD-2024-002", 0, TRUE),
                      Write("order_update", "ORD-2024-002", 2, TRUE)>>
    /\ \E i \in 1..Len(written[2]) :
            written[2][i] = Write("order_update", "ORD-2024-001", 1, TRUE)

\* told subscribedTo: 'all_orders' when it connected, and still connected
AllOrdersMode(c) ==
    c \in DOMAIN sseClients /\ written[c][1].orderId = "all_orders"

\* C2: a client connected without an order id is in all-orders mode (it is
\* told subscribedTo 'all_orders') and is written every order_update that is
\* broadcast while it remains connected.
C2_AllOrdersClientReceivesEveryUpdate ==
    [][\A c \in ConnIds :
        (AllOrdersMode(c) /\ Broadcasts /\ Last(emitted').type = "order_update")
        => /\ Writes(c)
           /\ Last(written'[c]).type = "order_update"
           /\ Last(written'[c]).n = Len(emitted')]_vars

\* the forward chain of the order lifecycle
ChainSuccessor(s) ==
    CASE s = "pending" -> "confirmed"
      [] s = "confirmed" -> "processing"
      [] s = "processing" -> "shipped"
      [] s = "shipped" -> "delivered"

HasSuccessor(s) == s \in {"pending", "confirmed", "processing", "shipped"}

\* the titles of the status-title table for the statuses a tick can set
TitleOf(s) ==
    CASE s = "confirmed" -> "Order Confirmed"
      [] s = "processing" -> "Processing"
      [] s = "shipped" -> "Shipped"
      [] s = "delivered" -> "Delivered"

\* the step is a step of the autonomous tick, of the trigger-update request
TickStep == tick' # tick
TriggerStep == trig' # trig

\* C3: a tick changes an order's status only from s to the forward-chain
\* successor of s; when the order it picked is absent, or the status it read
\* is delivered, cancelled or any value not in the chain, the tick changes
\* no order, appends no history entry and no message, and emits no event.
C3_TickOnlyAdvancesAlongChain ==
    [][TickStep =>
        /\ \A o \in DOMAIN orders :
                orders'[o].status # orders[o].status
                => /\ HasSuccessor(orders[o].status)
                   /\ orders'[o].status = ChainSuccessor(orders[o].status)
        /\ (/\ tick.pc = "update"
            /\ \/ tick.currentOrder = <<>>
               \/ ~HasSuccessor(tick.currentOrder[1].status))
           => /\ tick' = IdleTick
              /\ UNCHANGED <<orders, statusHistory, messages, emitted>>]_vars

\* C4: a tick that targets an existing order whose status has a successor
\* sets the order's status to that successor, then appends exactly one
\* history entry for the new status, with the title of the status-title
\* table and operator 'System', then exactly one message of type
\* status_update, then emits exactly one order_update carrying the updated
\* order; each step of the tick is taken once, in this order.
C4_TickEffects ==
    [][TickStep =>
        LET o == tick.orderId IN
        /\ (/\ tick.pc = "update"
            /\ tick.currentOrder # <<>>
            /\ HasSuccessor(tick.currentOrder[1].status)
            /\ orders[o] = tick.currentOrder[1])
           => /\ orders'[o].status = ChainSuccessor(orders[o].status)
              /\ \A x \in DOMAIN orders \ {o} : orders'[x] = orders[x]
              /\ tick'.pc = "history"
              /\ tick'.newStatus = orders'[o].status
              /\ tick'.updatedOrder = <<orders'[o]>>
              /\ UNCHANGED <<statusHistory, messages, emitted>>
        /\ tick.pc = "history" /\ HasSuccessor(tick.currentOrder[1].status)
           => /\ Len(statusHistory'[o]) = Len(statusHistory[o]) + 1
              /\ SubSeq(statusHistory'[o], 1, Len(statusHistory[o])) = statusHistory[o]
              /\ Last(statusHistory'[o]).status = tick.newStatus
              /\ Last(statusHistory'[o]).title = TitleOf(tick.newStatus)
              /\ Last(statusHistory'[o]).operator = "System"
              /\ \A x \in OrderIds \ {o} : statusHistory'[x] = statusHistory[x]
              /\ tick'.pc = "message"
              /\ UNCHANGED <<orders, messages, emitted>>
        /\ tick.pc = "message"
           => /\ Len(messages'[o]) = Len(messages[o]) + 1
              /\ SubSeq(messages'[o], 1, Len(messages[o])) = messages[o]
              /\ Last(messages'[o]).messageType = "status_update"
              /\ \A x \in OrderIds \ {o} : messages'[x] = messages[x]
              /\ tick'.pc = "broadcast"
              /\ UNCHANGED <<orders, statusHistory, emitted>>
        /\ tick.pc = "broadcast"
           => /\ emitted' = Append(emitted, [type |-> "order_update",
                                             data |-> tick.updatedOrder[1]])
              /\ tick.updatedOrder[1].orderId = o
              /\ tick.updatedOrder[1].status = tick.newStatus
              /\ tick' = IdleTick
              /\ UNCHANGED <<orders, statusHistory, messages>>]_vars

\* one tick and nothing else has run, on a pending order: the order is
\* confirmed, with one history entry, one message and one event
C4_Witness ==
    /\ tick = IdleTick
    /\ trig = IdleTrig
    /\ starts = 1
    /\ \E o \in DOMAIN orders :
        /\ orders[o].status = "confirmed"
        /\ changes[o] = 1
        /\ Len(statusHistory[o]) = 1
        /\ statusHistory[o][1].title = "Order Confirmed"
        /\ statusHistory[o][1].operator = "System"
        /\ Len(messages[o]) = 1
        /\ messages[o][1].messageType = "status_update"
        /\ emitted = <<OrderUpdate(orders[o])>>

\* C5: triggerOrderUpdate(orderId, newStatus) on an existing order succeeds
\* for any target status whatever the order's current status, sets the
\* order's status to newStatus and records the history entry with operator
\* 'Manual'; a tick never records 'Manual', a trigger never records 'System'.
C5_ManualTriggerAnyStatus ==
    /\ [](\A o \in DOMAIN orders, s \in OrderStatus :
            (trig.pc = "idle" /\ starts < MaxStarts)
            => ENABLED (/\ TriggerStart(o, s, now)
                        /\ trig'.pc = "history"
                        /\ orders'[o].status = s))
    /\ [][/\ (TriggerStep /\ trig.pc = "history" /\ trig.order # <<>>)
              => /\ Len(statusHistory'[trig.orderId]) = Len(statusHistory[trig.orderId]) + 1
                 /\ Last(statusHistory'[trig.orderId]).status = trig.newStatus
                 /\ Last(statusHistory'[trig.orderId]).operator = "Manual"
          /\ \A o \in OrderIds :
                statusHistory'[o] # statusHistory[o]
                => /\ TickStep => Last(statusHistory'[o]).operator = "System"
                   /\ TriggerStep => Last(statusHistory'[o]).operator = "Manual"]_vars

\* a tick has confirmed a pending order and a trigger has then set it back
\* to pending: the history holds a System entry and a Manual entry
C5_Witness ==
    \E o \in DOMAIN orders :
        /\ orders[o].status = "pending"
        /\ Len(statusHistory[o]) = 2
        /\ statusHistory[o][1].operator = "System"
        /\ statusHistory[o][1].status = "confirmed"
        /\ statusHistory[o][2].operator = "Manual"
        /\ statusHistory[o][2].status = "pending"
        /\ trig.res = 200

\* C6: the compound update (updateOrder, addOrderStatusHistory,
\* addOrderMessage) appears atomic to readers: in no state a read can
\* observe has an order's status been changed while the history entry or the
\* status_update message of that change is missing.
C6_CompoundUpdateAtomic ==
    \A o \in OrderIds :
        /\ Len(getOrderStatusHistory(o)) = changes[o]
        /\ Len(getOrderMessages(o)) = changes[o]

\* the step is a request 'close' or 'error', or a response 'error', of c
Disconnects(c) ==
    readyState[c] = "OPEN" /\ readyState'[c] \in {"CLOSING", "CLOSED"}

\* C7: when a connected client disconnects (request 'close' or 'error',
\* response 'error') its entry is removed: the client set loses exactly that
\* entry; afterwards no broadcast writes to the client or puts it back, and
\* no broadcast throws into the request that triggered it.
C7_DisconnectRemovesOnlyThatClient ==
    [][(variant = "sse_all" \/ variant = "sse_sub") =>
        /\ \A c \in DOMAIN sseClients :
                Disconnects(c)
                => /\ DOMAIN sseClients' = DOMAIN sseClients \ {c}
                   /\ Cardinality(DOMAIN sseClients') = Cardinality(DOMAIN sseClients) - 1
                   /\ \A x \in DOMAIN sseClients' : sseClients'[x] = sseClients[x]
        /\ \A c \in ConnIds :
                readyState[c] \in {"CLOSING", "CLOSED"}
                => /\ written'[c] = written[c]
                   /\ c \notin DOMAIN sseClients'
        /\ trig'.res # 500]_vars

\* the first client has connected and closed; an order_update broadcast to
\* all clients has then been written to the second one only
C7_Witness ==
    /\ variant = "sse_all"
    /\ readyState[1] = "CLOSED"
    /\ written[1] = <<Write("connection_status", "", 0, TRUE)>>
    /\ DOMAIN sseClients = {2}
    /\ Len(written[2]) = 2
    /\ written[2][2].type = "order_update"
    /\ written[2][2].ok
    /\ trig.res = 200

\* the clients a broadcast of message is due to
Eligible(c, message) ==
    /\ c \in DOMAIN sseClients
    /\ CASE variant = "sse_all" -> TRUE
         [] variant = "sse_sub" -> \/ message.type # "order_update"
                                   \/ message.data.orderId \in sseClients[c].subscribedOrders
         [] OTHER -> readyState[c] = "OPEN"

\* a write of a broadcast has failed on c
FailedBroadcastWrite(c) ==
    \E i \in 1..Len(written[c]) : written[c][i].n > 0 /\ ~written[c][i].ok

\* C8: when a broadcast write to a client fails, that client is evicted and
\* never written to again; every eligible client is written the event
\* exactly once in that broadcast, whichever writes fail; and the tick or
\* the trigger-update request that broadcast completes normally.
C8_FailedWriteEvictsOnlyThatClient ==
    [][/\ Broadcasts =>
            \A c \in ConnIds :
                /\ Eligible(c, Last(emitted'))
                   => /\ Writes(c)
                      /\ Last(written'[c]).type = Last(emitted').type
                      /\ Last(written'[c]).n = Len(emitted')
                      /\ Last(written'[c]).ok <=> c \in DOMAIN sseClients'
                /\ ~Eligible(c, Last(emitted'))
                   => /\ written'[c] = written[c]
                      /\ c \in DOMAIN sseClients' <=> c \in DOMAIN sseClients
       /\ (Broadcasts /\ TriggerStep) => trig' = Answer(200)
       /\ (Broadcasts /\ TickStep) => tick' = IdleTick
       /\ \A c \in ConnIds :
            FailedBroadcastWrite(c)
            => /\ written'[c] = written[c]
               /\ c \notin DOMAIN sseClients']_vars

\* one broadcast of a trigger-update request has failed on the first client,
\* which is evicted, and has reached the second, which is still connected;
\* the request has been answered 200
C8_Witness ==
    /\ 1 \notin DOMAIN sseClients
    /\ 2 \in DOMAIN sseClients
    /\ trig.res = 200
    /\ \E i \in 1..Len(written[1]), j \in 1..Len(written[2]) :
        /\ written[1][i].n > 0
        /\ written[2][j].n = written[1][i].n
        /\ ~written[1][i].ok
        /\ written[2][j].ok

\* C9: the first event written to a connection is connection_status, and it
\* is written when the connection is accepted, before any order_update.
C9_FirstEventIsConnectionStatus ==
    \A c \in ConnIds :
        /\ readyState[c] # "NONE" => written[c] # <<>>
        /\ written[c] # <<>> => written[c][1].type = "connection_status"

\* a connection that has been written its connection_status and then an
\* order_update
C9_Witness ==
    \E c \in ConnIds :
        /\ Len(written[c]) >= 2
        /\ written[c][1].type = "connection_status"
        /\ written[c][2].type = "order_update"

\* the connection of c has closed: the socket of a WebSocket client is
\* CLOSED; an SSE client that had connected is out of the client set, which
\* is what its close and error handlers and a failed write do
Closed(c) ==
    /\ readyState[c] # "NONE"
    /\ \/ readyState[c] = "CLOSED"
       \/ variant # "ws" /\ c \notin DOMAIN sseClients

\* C10: Closed is terminal: once a connection has closed (by the client, on
\* a detected error, or on a failed write, the initial connection_status
\* included) no further write is attempted on it and it never re-enters the
\* client set.
C10_ClosedIsTerminal ==
    [][\A c \in ConnIds :
        Closed(c) => /\ written'[c] = written[c]
                     /\ c \notin DOMAIN sseClients'
                     /\ Closed(c)']_vars

\* C11: the events written to one client preserve the emission order: of
\* two events of the simulator, trigger or Kafka path that a client is
\* written, the one handed to broadcastToClients first is written first; and
\* what is written is the event emitted.
C11_DeliveryPreservesEmissionOrder ==
    \A c \in ConnIds :
        /\ \A i, j \in 1..Len(written[c]) :
                (i < j /\ written[c][i].n > 0 /\ written[c][j].n > 0)
                => written[c][i].n < written[c][j].n
        /\ \A i \in 1..Len(written[c]) :
                written[c][i].n > 0
                => /\ written[c][i].n <= Len(emitted)
                   /\ written[c][i].type = emitted[written[c][i].n].type
                   /\ written[c][i].orderId = EventOrderId(emitted[written[c][i].n])

\* a client that has been written the first two events emitted
C11_Witness ==
    \E c \in DOMAIN sseClients :
        \E i, j \in 1..Len(written[c]) :
            /\ i < j
            /\ written[c][i].n = 1 /\ written[c][i].ok
            /\ written[c][j].n = 2 /\ written[c][j].ok

\* c is connected: in the client set, and for a WebSocket with an OPEN socket
Connected(c) ==
    c \in DOMAIN sseClients /\ (variant = "ws" => readyState[c] = "OPEN")

C13_StatusAlwaysInEnum ==
    \A o \in DOMAIN orders : orders[o].status \in OrderStatus

\* C14: for every stored order updatedAt >= createdAt, and no step (an
\* updateOrder call in particular) decreases the updatedAt of an order, the
\* clock being non-decreasing.
C14_UpdatedAtNeverDecreases ==
    /\ [](\A o \in DOMAIN orders : orders[o].updatedAt >= orders[o].createdAt)
    /\ [][\A o \in DOMAIN orders :
            orders'[o].updatedAt >= orders[o].updatedAt]_vars

\* an order created at time 0 and updated at time 1
C14_Witness ==
    \E o \in DOMAIN orders :
        /\ orders[o].createdAt = 0
        /\ orders[o].updatedAt = 1
        /\ changes[o] >= 1

\* the step is a call of createOrder
CreateStep == creates' = creates + 1

\* C15: for every valid create payload, createOrder followed at once by
\* getOrder with the same orderId returns a record whose supplied fields
\* equal the input, with the id the server assigned and with
\* createdAt = updatedAt.
C15_CreateThenGetRoundTrip ==
    [][CreateStep =>
        \E o \in OrderIds, s \in CreateStatuses :
            LET input == Payload(o, s)
                got == getOrder(o)'
            IN  /\ got # <<>>
                /\ got[1].id = currentId
                /\ got[1].orderId = input.orderId
                /\ got[1].customerId = input.customerId
                /\ got[1].customerName = input.customerName
                /\ got[1].totalAmount = input.totalAmount
                /\ got[1].itemCount = input.itemCount
                /\ got[1].status = input.status
                /\ got[1].createdAt = got[1].updatedAt]_vars

\* the step starts the handling of a Kafka order update, of a trigger-update
\* request: it is their call of updateOrder
KafkaUpdateStep == kafka.pc = "idle" /\ kafka'.pc = "history"
TriggerUpdateStep == trig.pc = "idle" /\ trig'.pc = "history"

\* the caller's input of the step carries a value for field f
CustomerNameSupplied == KafkaUpdateStep /\ kafka'.data[1].customerName # Undefined
TotalAmountSupplied == KafkaUpdateStep /\ kafka'.data[1].totalAmount # Undefined
ItemCountSupplied == KafkaUpdateStep

\* C16: updateOrder on an existing order changes only the supplied fields
\* and updatedAt and leaves every other field untouched (id, createdAt and
\* the fields the caller's input does not carry included); on an unknown
\* orderId it finds nothing, creates no order and leaves the store unchanged.
C16_UpdateChangesOnlySuppliedFields ==
    [][/\ \A o \in DOMAIN orders :
            (orders'[o] # orders[o] /\ ~CreateStep)
            => /\ orders'[o].id = orders[o].id
               /\ orders'[o].createdAt = orders[o].createdAt
               /\ orders'[o].orderId = orders[o].orderId
               /\ orders'[o].customerId = orders[o].customerId
               /\ ~CustomerNameSupplied => orders'[o].customerName = orders[o].customerName
               /\ ~TotalAmountSupplied => orders'[o].totalAmount = orders[o].totalAmount
               /\ ~ItemCountSupplied => orders'[o].itemCount = orders[o].itemCount
               /\ \A x \in DOMAIN orders \ {o} : orders'[x] = orders[x]
               /\ UNCHANGED <<orderKeys, messages, statusHistory, currentId>>
       /\ (KafkaUpdateStep /\ kafka'.data[1].orderId \notin DOMAIN orders)
          => /\ kafka'.order = <<>>
             /\ UNCHANGED <<orders, orderKeys, messages, statusHistory, currentId>>
       /\ (TriggerUpdateStep /\ trig'.orderId \notin DOMAIN orders)
          => /\ trig'.order = <<>>
             /\ UNCHANGED <<orders, orderKeys, messages, statusHistory, currentId>>]_vars

\* C17: orderId is immutable and unique: every stored order's orderId is
\* the key it is stored under, no two stored orders share an orderId, and
\* no step changes the orderId of a stored order or drops the order.
C17_OrderIdImmutableAndUnique ==
    /\ [](/\ \A o \in DOMAIN orders : orders[o].orderId = o
          /\ \A o1, o2 \in DOMAIN orders :
                orders[o1].orderId = orders[o2].orderId => o1 = o2
          /\ Len(orderKeys) = Cardinality(DOMAIN orders)
          /\ \A i \in 1..Len(orderKeys) : orderKeys[i] \in DOMAIN orders)
    /\ [][\A o \in DOMAIN orders :
            /\ o \in DOMAIN orders'
            /\ orders'[o].orderId = orders[o].orderId]_vars

\* two orders are stored; one has been created twice and updated
C17_Witness ==
    /\ DOMAIN orders = OrderIds
    /\ creates = 2
    /\ \E o \in OrderIds : changes[o] >= 1

\* position of an order in the store's insertion order
InsertionIndex(o) == CHOOSE i \in 1..Len(orderKeys) : orderKeys[i] = o

\* C18: listRecentOrders(n) returns at most n orders sorted by updatedAt
\* descending, ties in insertion order; and after creating a new order and
\* then updating it, that order is the first element of the result.
C18_RecentOrdersNewestFirst ==
    /\ [](\A n \in 0..MaxLimit :
            LET r == getRecentOrders(n) IN
            /\ Len(r) <= n
            /\ \A i, j \in 1..Len(r) :
                  i < j => \/ r[i].updatedAt > r[j].updatedAt
                           \/ /\ r[i].updatedAt = r[j].updatedAt
                              /\ InsertionIndex(r[i].orderId) < InsertionIndex(r[j].orderId))
    /\ [][\A o \in DOMAIN orders :
            (orders'[o] # orders[o] /\ ~CreateStep /\ orders[o].id = currentId - 1)
            => \A n \in 1..MaxLimit :
                 LET r == getRecentOrders(n)' IN
                 r # <<>> /\ r[1].orderId = o]_vars

\* log a is an initial part of log b
IsPrefix(a, b) == Len(a) <= Len(b) /\ SubSeq(b, 1, Len(a)) = a

\* C19: the status-history log of every order is append-only: over every
\* step the earlier log is a prefix of the later one, so its length never
\* decreases and its entries never change content or order; the same holds
\* for an order's message log over every step that is not a clearMessages
\* of that order, which empties the log.
C19_LogsAppendOnly ==
    [][\A o \in OrderIds :
         /\ IsPrefix(getOrderStatusHistory(o), getOrderStatusHistory(o)')
         /\ \/ IsPrefix(getOrderMessages(o), getOrderMessages(o)')
            \/ getOrderMessages(o)' = <<>>]_vars

\* an order with two history entries, and one message appended after a clear
\* dropped the first
C19_Witness ==
    /\ Quiet
    /\ \E o \in OrderIds :
         /\ Len(getOrderStatusHistory(o)) = 2
         /\ Len(getOrderMessages(o)) = 1

\* C20: clearMessages(orderId) followed by getMessages(orderId) yields the
\* empty sequence; it is a no-op when the order has no log; and it leaves
\* every other order's message log, all status-history logs and all order
\* records unchanged.
C20_ClearMessagesFrame ==
    /\ [](\A o \in OrderIds :
            /\ ENABLED ClearMessages(o)
            /\ getOrderMessages(o) = <<>>
               => ~ENABLED (ClearMessages(o) /\ vars' # vars))
    /\ [][\A o \in OrderIds :
            Len(getOrderMessages(o)') < Len(getOrderMessages(o))
            => /\ getOrderMessages(o)' = <<>>
               /\ \A x \in OrderIds \ {o} : messages'[x] = messages[x]
               /\ UNCHANGED <<statusHistory, orders, orderKeys>>]_vars

\* the log of one order was cleared after its update was recorded, and the
\* other order still has its messages
C20_Witness ==
    /\ Quiet
    /\ \E o \in OrderIds :
         /\ getOrderStatusHistory(o) # <<>>
         /\ getOrderMessages(o) = <<>>
         /\ \E x \in OrderIds \ {o} : getOrderMessages(x) # <<>>

\* C21: stopping the simulator is idempotent: disconnect can always be
\* called (it raises no error), it leaves no timer held and the connection
\* status false and touches nothing else, and called again, or without a
\* running timer, it changes nothing.
C21_DisconnectIdempotent ==
    /\ [](/\ ENABLED Disconnect
          /\ (messageInterval = Null /\ ~isConnected)
             => ~ENABLED (Disconnect /\ vars' # vars))
    /\ [][Disconnect
          => /\ messageInterval' = Null
             /\ isConnected' = FALSE
             /\ UNCHANGED <<storeVars, fanoutVars, tick, trig, emitted, errors>>]_vars

\* the simulator has run a tick and has been stopped
C21_Witness ==
    /\ messageInterval = Null
    /\ ~isConnected
    /\ starts >= 1

\* the step is a tick's catch: it logs an error
TickFails == errors' = errors + 1

\* C22: a failure raised during an autonomous tick aborts only that tick:
\* it is caught and logged inside the tick, the interval timer stays armed
\* so that later ticks still run, and no order is changed by the failing
\* step (the orders the tick did not pick in particular), nor any request,
\* client or log.
C22_TickFailureAbortsOnlyThatTick ==
    /\ [][TickFails
          => /\ tick' = IdleTick
             /\ messageInterval' = messageInterval
             /\ isConnected' = isConnected
             /\ \A o \in DOMAIN orders \ {tick.orderId} :
                   o \in DOMAIN orders' /\ orders'[o] = orders[o]
             /\ UNCHANGED <<storeVars, fanoutVars, trig, kafka, emitted>>]_vars
    /\ []((errors >= 1 /\ messageInterval # Null /\ tick.pc = "idle" /\ starts < MaxStarts)
          => \A o \in sampleOrders : ENABLED TickStart(o))

\* a tick failed after its updateOrder, and a later tick of the same timer
\* is in progress
C22_Witness ==
    /\ errors >= 1
    /\ messageInterval # Null
    /\ tick.pc = "update"
    /\ \E o \in OrderIds : changes[o] = 1 /\ statusHistory[o] = <<>>

\* the step takes in a trigger-update request
TriggerRequestStep == trig.pc = "idle" /\ starts' = starts + 1 /\ trig' # trig

\* C23: POST /api/orders/:orderId/trigger-update with no status in the body
\* responds 400, leaves the order, its status history and its message log
\* unchanged and emits no event: a request goes on to the store only with a
\* status, and a request that does not go on is answered 400 with nothing
\* written.
C23_TriggerWithoutStatusIs400 ==
    [][TriggerRequestStep
       => /\ trig'.pc = "history" => Truthy(trig'.newStatus)
          /\ trig'.pc = "idle"
             => /\ trig'.res = 400
                /\ UNCHANGED <<orders, statusHistory, messages, emitted, written>>]_vars

\* C24: GET /api/orders/:orderId responds 404 with an error body exactly
\* when no order with that orderId is in the store, and 200 with the stored
\* order otherwise; an order once created is never deleted, so an orderId
\* that was answered 200 is never answered 404 afterwards.
C24_GetOrder404IffAbsent ==
    /\ [](\A o \in sampleOrders :
            LET r == GetOrderRoute(o) IN
            /\ r.status = 404 <=> o \notin DOMAIN orders
            /\ r.status = 404 => r.body = [error |-> "Order not found"]
            /\ r.status # 404 => r.status = 200 /\ r.body = orders[o])
    /\ [][\A o \in sampleOrders :
            GetOrderRoute(o).status = 200 => GetOrderRoute(o)'.status = 200]_vars

\* one order is stored and has been updated, another has never been created
C24_Witness ==
    /\ GetOrderRoute("ORD-2024-001").status = 200
    /\ changes["ORD-2024-001"] >= 1
    /\ GetOrderRoute("ORD-2024-002").status = 404

\* the subscription set of a client in a client set
SubsOf(clients, c) == clients[c].subscribedOrders

\* C25: the subscribe and unsubscribe endpoints called with a clientId that
\* is not in the client set (never connected, disconnected, or evicted after
\* a failed write) answer 404 and change no client's subscription set; with
\* a known clientId they answer success and add or remove exactly that
\* orderId in exactly that client's set.
C25_SubscribeUnknownClientIs404 ==
    /\ [](\A c \in ConnIds, o \in OrderIds :
            LET sub == SubscribeRoute(c, o)
                unsub == UnsubscribeRoute(c, o)
            IN  IF c \notin DOMAIN sseClients
                THEN /\ sub.status = 404 /\ sub.clients = sseClients
                     /\ unsub.status = 404 /\ unsub.clients = sseClients
                ELSE /\ sub.status = 200 /\ unsub.status = 200
                     /\ DOMAIN sub.clients = DOMAIN sseClients
                     /\ DOMAIN unsub.clients = DOMAIN sseClients
                     /\ SubsOf(sub.clients, c) = SubsOf(sseClients, c) \cup {o}
                     /\ SubsOf(unsub.clients, c) = SubsOf(sseClients, c) \ {o}
                     /\ \A x \in DOMAIN sseClients \ {c} :
                           /\ sub.clients[x] = sseClients[x]
                           /\ unsub.clients[x] = sseClients[x])
    /\ [][\A c \in DOMAIN sseClients \cap DOMAIN sseClients' :
            SubsOf(sseClients', c) # SubsOf(sseClients, c)
            => /\ \E o \in OrderIds :
                    \/ SubsOf(sseClients', c) = SubsOf(sseClients, c) \cup {o}
                    \/ SubsOf(sseClients', c) = SubsOf(sseClients, c) \ {o}
               /\ DOMAIN sseClients' = DOMAIN sseClients
               /\ \A x \in DOMAIN sseClients \ {c} : sseClients'[x] = sseClients[x]
               /\ UNCHANGED <<written, readyState, storeVars>>]_vars

\* one client was evicted after a failed write while its connection is
\* open, and the other has subscribed to a second order through the endpoint
C25_Witness ==
    /\ variant = "sse_sub"
    /\ \E c \in ConnIds :
         /\ c \notin DOMAIN sseClients
         /\ readyState[c] = "OPEN"
         /\ SubscribeRoute(c, "ORD-2024-001").status = 404
    /\ \E c \in DOMAIN sseClients : SubsOf(sseClients, c) = OrderIds

\* the step is the tick's call of updateOrder on a stored order
TickWrites == tick.pc = "update" /\ tick'.pc = "history" /\ tick'.updatedOrder # <<>>

\* C26: when a tick and a manual trigger on the same order interleave at
\* their awaits, the status the tick writes is the forward-chain successor
\* of the order's status at the moment of the write, so a tick that read the
\* order before a trigger set it to delivered or cancelled does not
\* overwrite that status with an earlier chain value.  Stated for the ticks
\* that read a status of the chain.
C26_TickWritesSuccessorOfCurrentStatus ==
    [][(TickWrites /\ HasSuccessor(tick.currentOrder[1].status))
       => LET o == tick.orderId IN
          /\ HasSuccessor(orders[o].status)
          /\ orders'[o].status = ChainSuccessor(orders[o].status)]_vars

\* the store holds a history entry, a status_update message, for status s
\* of order o
HistoryFor(o, s) ==
    \E i \in 1..Len(statusHistory[o]) : statusHistory[o][i].status = s
MessageFor(o, s) ==
    \E j \in 1..Len(messages[o]) :
        /\ messages[o][j].messageType = "status_update"
        /\ messages[o][j].content[2] = s

\* the step emits an order_update event
EmitsOrderUpdate == Broadcasts /\ Last(emitted').type = "order_update"

ArrivesAtBroadcast(h, hNext, o, s) ==
    (h.pc # "broadcast" /\ hNext.pc = "broadcast")
    => /\ Len(messages'[o]) = Len(messages[o]) + 1
       /\ IsPrefix(messages[o], messages'[o])
       /\ Last(messages'[o]).messageType = "status_update"
       /\ Last(messages'[o]).content[2] = s
       /\ HistoryFor(o, s)

EventsFor(o) ==
    Cardinality({i \in 1..Len(emitted) :
                    emitted[i].type = "order_update" /\ emitted[i].data.orderId = o})

\* C28: in every quiescent state (no tick and no trigger in progress), for
\* every order, the number of status-history entries equals the number of
\* status changes that ticks and triggers applied to it and the number of
\* order_update events emitted for it, and the last history entry has the
\* order's current status; an order that is not in the store has none of
\* these.
C28_QuiescentCountsAgree ==
    (tick.pc = "idle" /\ trig.pc = "idle")
    => \A o \in OrderIds :
         /\ Len(statusHistory[o]) = changes[o]
         /\ EventsFor(o) = changes[o]
         /\ (o \in DOMAIN orders /\ statusHistory[o] # <<>>)
            => Last(statusHistory[o]).status = orders[o].status
         /\ o \notin DOMAIN orders
            => changes[o] = 0 /\ statusHistory[o] = <<>> /\ messages[o] = <<>>

\* the step is a createOrder for the orderId o, which is already stored
Recreates(o) == CreateStep /\ o \in DOMAIN orders /\ orders'[o].id = currentId

\* C29: createOrder with an orderId that already exists never fails: it
\* replaces the stored record with the new payload, a new internal id and
\* fresh createdAt/updatedAt, keeps the store at one record for that
\* orderId, and leaves the order's message log and status history unchanged.
C29_RecreateReplacesRecordKeepsLogs ==
    /\ [](creates < MaxCreates
          => \A o \in DOMAIN orders : ENABLED CreateOrder(o, "pending", now, now))
    /\ [][\A o \in OrderIds :
            Recreates(o)
            => /\ \E s \in CreateStatuses :
                    \E t1 \in now..MaxClock :
                    \E t2 \in t1..MaxClock :
                        orders'[o] = NewOrder(Payload(o, s), currentId, t1, t2)
               /\ orders'[o].id > orders[o].id
               /\ orders'[o].createdAt >= orders[o].updatedAt
               /\ DOMAIN orders' = DOMAIN orders
               /\ orderKeys' = orderKeys
               /\ \A x \in DOMAIN orders \ {o} : orders'[x] = orders[x]
               /\ UNCHANGED <<messages, statusHistory>>]_vars

\* an order that has a history entry and a message was created again: its
\* internal id is younger than theirs
C29_Witness ==
    \E o \in DOMAIN orders :
        /\ statusHistory[o] # <<>>
        /\ messages[o] # <<>>
        /\ orders[o].id > Last(statusHistory[o]).id
        /\ orders[o].id > Last(messages[o]).id

\* the internal ids of the records in the store: orders, messages, history
OrderRecordIds == {orders[o].id : o \in DOMAIN orders}
MessageIds == UNION {{messages[o][i].id : i \in 1..Len(messages[o])} : o \in OrderIds}
HistoryIds == UNION {{statusHistory[o][i].id : i \in 1..Len(statusHistory[o])} : o \in OrderIds}

\* the number of records in a family of logs
RECURSIVE TotalLen(_, _)
TotalLen(logs, S) ==
    IF S = {} THEN 0
    ELSE LET o == CHOOSE x \in S : TRUE IN Len(logs[o]) + TotalLen(logs, S \ {o})

StrictlyIncreasingIds(log) ==
    \A i, j \in 1..Len(log) : i < j => log[i].id < log[j].id

\* C30: internal ids come from one counter shared by orders, messages and
\* status-history entries: every createOrder, addOrderMessage and
\* addOrderStatusHistory takes the counter's value and advances it by one,
\* so that all ids assigned are distinct and increase in call order, and
\* within each message log and history log ids are strictly increasing.
C30_IdsFromOneCounter ==
    /\ [](/\ \A id \in OrderRecordIds \cup MessageIds \cup HistoryIds :
                id >= 1 /\ id < currentId
          /\ Cardinality(OrderRecordIds \cup MessageIds \cup HistoryIds)
                = Cardinality(DOMAIN orders) + TotalLen(messages, OrderIds)
                  + TotalLen(statusHistory, OrderIds)
          /\ \A o \in OrderIds :
                /\ StrictlyIncreasingIds(messages[o])
                /\ StrictlyIncreasingIds(statusHistory[o]))
    /\ [][/\ currentId' \in {currentId, currentId + 1}
          /\ \A o \in DOMAIN orders' :
                (o \notin DOMAIN orders \/ orders'[o].id # orders[o].id)
                => orders'[o].id = currentId /\ currentId' = currentId + 1
          /\ \A o \in OrderIds :
                /\ Len(messages'[o]) > Len(messages[o])
                   => Last(messages'[o]).id = currentId /\ currentId' = currentId + 1
                /\ Len(statusHistory'[o]) > Len(statusHistory[o])
                   => Last(statusHistory'[o]).id = currentId /\ currentId' = currentId + 1]_vars

\* an order, then a history entry, then a message of it were numbered, and
\* a later order after them
C30_Witness ==
    \E o \in DOMAIN orders, x \in DOMAIN orders :
        /\ statusHistory[o] # <<>> /\ messages[o] # <<>>
        /\ orders[o].id < statusHistory[o][1].id
        /\ statusHistory[o][1].id < messages[o][1].id
        /\ messages[o][1].id < orders[x].id

====
